---- MODULE Spec2Model ----
(***************************************************************************)
(* JSON-RPC over STOMP (src/jsonrpcstomp.py): message classification       *)
(* (JSONRPCObject), the session operations of JSONRPCStomp (connect,       *)
(* disconnect, accept_calls, accept_notifications, notify, call) and the   *)
(* dispatch loop (run / _process_message).  The STOMP broker (stompy) is   *)
(* the environment: it records subscriptions and delivers every frame put  *)
(* to a destination into the inbox of each session subscribed to it.       *)
(***************************************************************************)
EXTENDS Integers, Sequences, FiniteSets, TLC

(***************************************************************************)
(* Program constants                                                       *)
(***************************************************************************)
PREFIX_TOPIC_MESSAGE == "/topic/msg.local."
PREFIX_TOPIC_JOB == "/topic/req.local."
PREFIX_REPLY == "/topic/reply-"

JSONRPC_KEY_PARAMS == "params"
JSONRPC_KEY_METHOD == "method"
JSONRPC_KEY_ID == "id"
JSONRPC_KEY_RESULT == "result"
JSONRPC_KEY_JSONRP == "jsonrpc"
JSONRPC_KEY_ERROR == "error"
JSONRPC_KEY_VERSION == "2.0"

JSONRPC_VALUE_ERROR_MET_NOT == -32601
JSONRPC_VALUE_ERROR_INT_ERR == -32603
JSONRPC_VALUE_MSG_MET_NOT == "Method not found"
JSONRPC_VALUE_MSG_INT_ERR == "Internal error"

ACK_CLIENT == "client"
ACK_AUTO == "auto"

MSG_TYPE_JOB == "job"
MSG_TYPE_NOT == "notification"
MSG_TYPE_CALLBACK_SUCCESS == "callback_sucess"
MSG_TYPE_CALLBACK_ERROR == "callback_error"
\* the attribute message_type was never assigned (reading it raises AttributeError)
MSG_TYPE_UNSET == "<unset>"

MSG_QUIT == "quit"

(***************************************************************************)
(* Bounds of the model                                                     *)
(***************************************************************************)
\* calls a session may issue (caps last_id)
MaxCalls == 2
\* frames waiting in one session's inbox
MaxInbox == 1
\* successful connects over all sessions (each draws a fresh reply token)
MaxConnects == 2
\* registrations (accept_calls and accept_notifications) over all sessions
MaxRegs == 1

(***************************************************************************)
(* Python / JSON values.  None and JSON null are the same value (json      *)
(* maps null to None and dict.get returns None for a missing key).         *)
(***************************************************************************)
None == [t |-> "null"]
JInt(n) == [t |-> "int", n |-> n]
JStr(s) == [t |-> "str", s |-> s]
\* a JSON object with integer members, as its set of <<key, value>> pairs
JDict(pairs) == [t |-> "dict", d |-> pairs]
JError(code, message) == [t |-> "err", code |-> code, message |-> message]

\* dict.get(key): the member, or None when the key is missing
Get(obj, key) == IF key \in DOMAIN obj THEN obj[key] ELSE None

\* json.dumps(obj): the text of a JSON document
JsonDumps(obj) == [kind |-> "json", obj |-> obj]
\* a frame body that is no JSON document
RawBody(text) == [kind |-> "raw", text |-> text]
\* json.loads(body) raises ValueError on a body that is no JSON document
JsonLoadsFails(body) == body.kind # "json"
JsonLoads(body) == body.obj

(***************************************************************************)
(* str.startswith and str.partition(sep)[-1]                               *)
(***************************************************************************)
StartsWith(s, prefix) ==
    /\ Len(s) >= Len(prefix)
    /\ SubSeq(s, 1, Len(prefix)) = prefix

\* positions at which sep occurs in s
Occurrences(s, sep) ==
    {i \in 1..(Len(s) - Len(sep) + 1) : SubSeq(s, i, i + Len(sep) - 1) = sep}

\* s.partition(sep)[-1]: what follows the first occurrence of sep, "" if none
PartitionLast(s, sep) ==
    IF Occurrences(s, sep) = {} THEN ""
    ELSE LET i == CHOOSE k \in Occurrences(s, sep) :
                      \A j \in Occurrences(s, sep) : k <= j
         IN SubSeq(s, i + Len(sep), Len(s))

(***************************************************************************)
(* A STOMP frame: body and the two headers the program reads               *)
(***************************************************************************)
Frame(body, destination, reply_to) ==
    [body |-> body, destination |-> destination, reply_to |-> reply_to]

\* the header 'reply-to' is absent
NoReplyTo == ""

(***************************************************************************)
(* JSONRPCObject.__init__: classification of an inbound frame whose body   *)
(* parsed as a JSON object                                                 *)
(***************************************************************************)
\* a classification that tests the destination before the id
ClassifyTypePrefixFirst(destination, id, result) ==
    IF StartsWith(destination, PREFIX_TOPIC_JOB) THEN MSG_TYPE_JOB
    ELSE IF id = None THEN MSG_TYPE_NOT
    ELSE IF StartsWith(destination, PREFIX_REPLY)
         THEN (IF result # None THEN MSG_TYPE_CALLBACK_SUCCESS
               ELSE MSG_TYPE_CALLBACK_ERROR)
         ELSE MSG_TYPE_UNSET

ClassifyType(destination, id, result) ==
    IF id = None THEN MSG_TYPE_NOT
    ELSE LET afterJobTest == IF StartsWith(destination, PREFIX_TOPIC_JOB)
                             THEN MSG_TYPE_JOB
                             ELSE MSG_TYPE_UNSET
         IN IF StartsWith(destination, PREFIX_REPLY)
            THEN (IF result # None THEN MSG_TYPE_CALLBACK_SUCCESS
                  ELSE MSG_TYPE_CALLBACK_ERROR)
            ELSE afterJobTest

\* the message_type the constructor leaves on the object
MessageType(message) ==
    LET json_msg == JsonLoads(message.body)
    IN ClassifyType(message.destination, Get(json_msg, JSONRPC_KEY_ID),
                    Get(json_msg, JSONRPC_KEY_RESULT))

JSONRPCObject(message) ==
    LET destination == message.destination
        json_msg == JsonLoads(message.body)
        id == Get(json_msg, JSONRPC_KEY_ID)
        isjob == id # None /\ StartsWith(destination, PREFIX_TOPIC_JOB)
    IN [params |-> Get(json_msg, JSONRPC_KEY_PARAMS),
        method |-> IF isjob
                   THEN JStr(PartitionLast(destination, PREFIX_TOPIC_JOB))
                   ELSE Get(json_msg, JSONRPC_KEY_METHOD),
        id |-> id,
        result |-> Get(json_msg, JSONRPC_KEY_RESULT),
        error |-> Get(json_msg, JSONRPC_KEY_ERROR),
        message_type |-> MessageType(message),
        \* attributes set on one branch only; "" where never assigned
        notification |-> IF id = None
                         THEN PartitionLast(destination, PREFIX_TOPIC_MESSAGE)
                         ELSE "",
        reply_to |-> IF isjob THEN message.reply_to ELSE NoReplyTo]

is_notification(message_type) == message_type = MSG_TYPE_NOT
is_job(message_type) == message_type = MSG_TYPE_JOB
is_callback(message_type) ==
    \/ message_type = MSG_TYPE_CALLBACK_SUCCESS
    \/ message_type = MSG_TYPE_CALLBACK_ERROR

(***************************************************************************)
(* Inputs of the model                                                     *)
(***************************************************************************)
Sessions == {"A", "B"}
\* a method argument that is not a str
NotAString == JInt(7)
MethodNames == {"add"}
NotificationNames == {"ping"}
MethodArgs(names) == {JStr(n) : n \in names} \cup {NotAString}

\* callables registered with accept_calls / accept_notifications
\*   h_add(x, y) returns x + y; h_void() returns None; h_raise(**kw) raises
Handlers == {"h_add", "h_void", "h_raise"}
\* callables passed to call as callback_success / callback_error: the
\* embedding program passes a fresh pair of closures with each call
CallbackPool == <<[success |-> "onS1", error |-> "onE1"],
                  [success |-> "onS2", error |-> "onE2"],
                  [success |-> "onS3", error |-> "onE3"],
                  [success |-> "onS4", error |-> "onE4"]>>

XY == JDict({<<"x", 2>>, <<"y", 3>>})
EmptyDict == JDict({})
XYText == "{\"x\": 2, \"y\": 3}"
ParamValues == {None, EmptyDict, XY, JStr(""), JStr(XYText), JStr("oops")}

\* random_string of connect number n (random.choice over 16 characters:
\* distinct connects are taken to draw distinct strings)
TokenPool == <<"AAAAAAAAAAAAAAAA", "BBBBBBBBBBBBBBBB", "CCCCCCCCCCCCCCCC",
               "DDDDDDDDDDDDDDDD", "EEEEEEEEEEEEEEEE", "FFFFFFFFFFFFFFFF">>

\* reply_to_topic before the first connect: the attribute does not exist
NoTopic == ""

NoFrame == Frame(RawBody(""), "", NoReplyTo)

(***************************************************************************)
(* Python semantics used by _process_message                               *)
(***************************************************************************)
\* len(x) raises TypeError for None and for numbers
PyLenFails(v) == v.t \in {"null", "int", "err"}
PyLen(v) == IF v.t = "str" THEN Len(v.s) ELSE Cardinality(v.d)

\* json.loads(x) of line 217: TypeError unless x is a string, ValueError
\* unless the string is a JSON document
ParamsLoadFails(v) == v.t # "str" \/ v.s \notin {XYText, "{}"}
ParamsLoad(v) == IF v.s = XYText THEN XY ELSE EmptyDict

\* f(**params) raises TypeError unless params is a mapping
IsMapping(v) == v.t = "dict"

\* the call h(**kwargs): whether it raises, and what it returns
HandlerRaises(h, kwargs) ==
    \/ h = "h_raise"
    \/ h = "h_add" /\ {p[1] : p \in kwargs.d} # {"x", "y"}
    \/ h = "h_void" /\ kwargs.d # {}
HandlerResult(h, kwargs) ==
    IF h = "h_add"
    THEN LET x == CHOOSE p \in kwargs.d : p[1] = "x"
             y == CHOOSE p \in kwargs.d : p[1] = "y"
         IN JInt(x[2] + y[2])
    ELSE None

(***************************************************************************)
(* State                                                                   *)
(***************************************************************************)
VARIABLES
    \* JSONRPCStomp attributes, one per session
    methods, notifiers, callbacks_success, callbacks_error,
    is_connected, last_id, reply_to_topic,
    \* "unset" before run() created the attribute, then "True" / "False"
    listen,
    \* where run() is: "idle" (not called), "loop", "returned", "raised"
    run_pc,
    \* the broker: destinations each session subscribed, frames awaiting get()
    subscriptions, inbox,
    \* successful connects so far (indexes TokenPool)
    connects,
    \* successful registrations so far
    regs,
    \* history: what the latest operation did
    last,
    \* history: the arguments of each call, by allocated id
    issued,
    \* history: every (session, kind, name, callable) ever registered
    registered,
    \* classification on its own: the frame given and the object built
    cl_in, cl_out,
    \* connect() step by step: where each session's connect call is
    connect_pc

registry_vars == <<methods, notifiers>>
correlation_vars == <<callbacks_success, callbacks_error, last_id>>
loop_vars == <<listen, run_pc>>
session_vars == <<registry_vars, correlation_vars, loop_vars, is_connected,
                  reply_to_topic>>
broker_vars == <<subscriptions, inbox>>
budget_vars == <<connects, regs>>
classify_vars == <<cl_in, cl_out>>
aside_vars == <<classify_vars, connect_pc>>
vars == <<session_vars, broker_vars, budget_vars, last, issued, registered,
          aside_vars>>

\* an empty dict
EmptyTable == [k \in {} |-> ""]

\* d[k] = v on a dict
DictSet(d, k, v) == [x \in (DOMAIN d) \cup {k} |-> IF x = k THEN v ELSE d[x]]

\* what one operation did: the exception it raised ("" if none), the frames it
\* put, the subscriptions it issued, the callables it invoked, and for an
\* iteration of run() the frame get() returned
Did(op, s, msg, raised, puts, subs, invoked) ==
    [op |-> op, s |-> s, msg |-> msg, raised |-> raised, puts |-> puts,
     subs |-> subs, invoked |-> invoked]

\* one invocation of a callable: h(**args) for handlers, h(args) for callbacks
Invocation(h, args) == [h |-> h, args |-> args]

NotClassified == [message_type |-> "<none>"]

InitSessions ==
    /\ methods = [s \in Sessions |-> EmptyTable]
    /\ notifiers = [s \in Sessions |-> EmptyTable]
    /\ callbacks_success = [s \in Sessions |-> EmptyTable]
    /\ callbacks_error = [s \in Sessions |-> EmptyTable]
    /\ is_connected = [s \in Sessions |-> FALSE]
    /\ last_id = [s \in Sessions |-> 0]
    /\ reply_to_topic = [s \in Sessions |-> NoTopic]
    /\ listen = [s \in Sessions |-> "unset"]
    /\ run_pc = [s \in Sessions |-> "idle"]
    /\ subscriptions = [s \in Sessions |-> {}]
    /\ inbox = [s \in Sessions |-> <<>>]
    /\ connects = 0
    /\ regs = 0
    /\ last = Did("init", "", NoFrame, "", <<>>, <<>>, <<>>)
    /\ issued = [s \in Sessions |-> <<>>]
    /\ registered = {}
    /\ connect_pc = [s \in Sessions |-> "idle"]

Init ==
    /\ InitSessions
    /\ cl_in = NoFrame
    /\ cl_out = NotClassified

(***************************************************************************)
(* The broker (stompy Client.subscribe / put / get, outside src/)          *)
(***************************************************************************)
Subscribed(s) == {sub[1] : sub \in subscriptions[s]}
Recipients(frame) == {t \in Sessions : frame.destination \in Subscribed(t)}

\* every subscriber of the frame's destination has room for it
CanDeliver(box, frame) == \A t \in Recipients(frame) : Len(box[t]) < MaxInbox

\* self.put(body, destination=..., conf=...)
Put(box, frame) ==
    [t \in Sessions |-> IF t \in Recipients(frame)
                        THEN Append(box[t], frame) ELSE box[t]]

(***************************************************************************)
(* JSONRPCStomp.connect                                                    *)
(***************************************************************************)
\* the acknowledgment mode of the reply topic's subscription
ReplyAck == ACK_CLIENT

Connect(s) ==
    /\ connects < MaxConnects
    /\ connects < Len(TokenPool)
    /\ LET random_string == TokenPool[connects + 1]
           topic == PREFIX_REPLY \o random_string
       IN /\ reply_to_topic' = [reply_to_topic EXCEPT ![s] = topic]
          /\ subscriptions' = [subscriptions EXCEPT
                                  ![s] = @ \cup {<<topic, ReplyAck>>}]
          /\ is_connected' = [is_connected EXCEPT ![s] = TRUE]
          /\ last' = Did("connect", s, NoFrame, "", <<>>,
                         <<<<topic, ReplyAck>>>>, <<>>)
    /\ connects' = connects + 1
    /\ UNCHANGED <<registry_vars, correlation_vars, loop_vars, inbox, regs,
                   issued, registered, aside_vars>>

(***************************************************************************)
(* JSONRPCStomp.disconnect: the broker drops the connection's              *)
(* subscriptions and the frames it had not handed over yet                 *)
(***************************************************************************)
\* a disconnect that also forgets the registered methods and the pending calls
DisconnectClearing(s) ==
    /\ is_connected' = [is_connected EXCEPT ![s] = FALSE]
    /\ methods' = [methods EXCEPT ![s] = EmptyTable]
    /\ callbacks_success' = [callbacks_success EXCEPT ![s] = EmptyTable]
    /\ subscriptions' = [subscriptions EXCEPT ![s] = {}]
    /\ inbox' = [inbox EXCEPT ![s] = <<>>]
    /\ last' = Did("disconnect", s, NoFrame, "", <<>>, <<>>, <<>>)
    /\ UNCHANGED <<notifiers, callbacks_error, last_id, loop_vars,
                   reply_to_topic, budget_vars, issued, registered,
                   aside_vars>>

Disconnect(s) ==
    /\ is_connected' = [is_connected EXCEPT ![s] = FALSE]
    /\ subscriptions' = [subscriptions EXCEPT ![s] = {}]
    /\ inbox' = [inbox EXCEPT ![s] = <<>>]
    /\ last' = Did("disconnect", s, NoFrame, "", <<>>, <<>>, <<>>)
    /\ UNCHANGED <<registry_vars, correlation_vars, loop_vars, reply_to_topic,
                   budget_vars, issued, registered, aside_vars>>

(***************************************************************************)
(* JSONRPCStomp.accept_notifications / accept_calls                        *)
(***************************************************************************)
\* a registration that does not look at is_connected
AcceptRaisesUnguarded(s, method) ==
    IF method.t = "str" THEN "" ELSE "TypeError"

\* the exception the registration raises, "" if none
AcceptRaises(s, method) ==
    IF is_connected[s]
    THEN (IF method.t = "str" THEN "" ELSE "TypeError")
    ELSE "NotConnectedError"

\* the acknowledgment modes of lines 152 and 164
NotificationAck == ACK_AUTO
CallAck == ACK_AUTO

AcceptNotifications(s, method, callback) ==
    /\ IF AcceptRaises(s, method) = ""
       THEN LET method_name == PREFIX_TOPIC_MESSAGE \o method.s
            IN /\ regs < MaxRegs
               /\ regs' = regs + 1
               /\ notifiers' = [notifiers EXCEPT
                                   ![s] = DictSet(@, method.s, callback)]
               /\ subscriptions' =
                     [subscriptions EXCEPT
                         ![s] = @ \cup {<<method_name, NotificationAck>>}]
               /\ registered' = registered \cup
                                   {<<s, "notification", method.s, callback>>}
               /\ last' = Did("accept_notifications", s, NoFrame, "", <<>>,
                              <<<<method_name, NotificationAck>>>>, <<>>)
       ELSE /\ last' = Did("accept_notifications", s, NoFrame,
                           AcceptRaises(s, method), <<>>, <<>>, <<>>)
            /\ UNCHANGED <<notifiers, subscriptions, registered, regs>>
    /\ UNCHANGED <<methods, correlation_vars, loop_vars, is_connected,
                   reply_to_topic, inbox, connects, issued, aside_vars>>

AcceptCalls(s, method, callback) ==
    /\ IF AcceptRaises(s, method) = ""
       THEN LET method_name == PREFIX_TOPIC_JOB \o method.s
            IN /\ regs < MaxRegs
               /\ regs' = regs + 1
               /\ methods' = [methods EXCEPT
                                 ![s] = DictSet(@, method.s, callback)]
               /\ subscriptions' =
                     [subscriptions EXCEPT
                         ![s] = @ \cup {<<method_name, CallAck>>}]
               /\ registered' = registered \cup
                                   {<<s, "method", method.s, callback>>}
               /\ last' = Did("accept_calls", s, NoFrame, "", <<>>,
                              <<<<method_name, CallAck>>>>, <<>>)
       ELSE /\ last' = Did("accept_calls", s, NoFrame,
                           AcceptRaises(s, method), <<>>, <<>>, <<>>)
            /\ UNCHANGED <<methods, subscriptions, registered, regs>>
    /\ UNCHANGED <<notifiers, correlation_vars, loop_vars, is_connected,
                   reply_to_topic, inbox, connects, issued, aside_vars>>

(***************************************************************************)
(* Client.subscribe, inherited from stompy and callable by the embedding   *)
(* program: a subscription with no registration behind it                  *)
(***************************************************************************)
Subscribe(s, destination, ack) ==
    /\ is_connected[s]
    /\ <<destination, ack>> \notin subscriptions[s]
    /\ subscriptions' = [subscriptions EXCEPT
                            ![s] = @ \cup {<<destination, ack>>}]
    /\ last' = Did("subscribe", s, NoFrame, "", <<>>,
                   <<<<destination, ack>>>>, <<>>)
    /\ UNCHANGED <<session_vars, inbox, budget_vars, issued, registered,
                   aside_vars>>

(***************************************************************************)
(* The envelopes of lines 173-175, 191-194, 222-224 and 230-235            *)
(***************************************************************************)
Request(method, id, params) ==
    (JSONRPC_KEY_JSONRP :> JStr(JSONRPC_KEY_VERSION))
    @@ (JSONRPC_KEY_METHOD :> JStr(method))
    @@ (JSONRPC_KEY_ID :> id)
    @@ (JSONRPC_KEY_PARAMS :> params)

Notification(method, params) ==
    (JSONRPC_KEY_JSONRP :> JStr(JSONRPC_KEY_VERSION))
    @@ (JSONRPC_KEY_METHOD :> JStr(method))
    @@ (JSONRPC_KEY_PARAMS :> params)

ResultResponse(id, result) ==
    (JSONRPC_KEY_JSONRP :> JStr(JSONRPC_KEY_VERSION))
    @@ (JSONRPC_KEY_ID :> id)
    @@ (JSONRPC_KEY_RESULT :> result)

ErrorResponse(id, code, message) ==
    (JSONRPC_KEY_JSONRP :> JStr(JSONRPC_KEY_VERSION))
    @@ (JSONRPC_KEY_ID :> id)
    @@ (JSONRPC_KEY_ERROR :> JError(code, message))

(***************************************************************************)
(* JSONRPCStomp.notify                                                     *)
(***************************************************************************)
\* a notify that sends what call sends
NotifyFrameAsCall(method, params) ==
    LET message == Request(method, JInt(1), params)
        destination == PREFIX_TOPIC_JOB \o method
    IN Frame(JsonDumps(message), destination, NoReplyTo)

NotifyFrame(method, params) ==
    LET message == Notification(method, params)
        destination == PREFIX_TOPIC_MESSAGE \o method
    IN Frame(JsonDumps(message), destination, NoReplyTo)

\* the frames notify puts
NotifyPuts(method, params) == <<NotifyFrame(method, params)>>

Notify(s, method, params) ==
    LET puts == NotifyPuts(method, params)
    IN /\ \A i \in 1..Len(puts) : CanDeliver(inbox, puts[i])
       /\ inbox' = (IF puts = <<>> THEN inbox ELSE Put(inbox, puts[1]))
       /\ last' = Did("notify", s, NoFrame, "", puts, <<>>, <<>>)
       /\ UNCHANGED <<session_vars, subscriptions, budget_vars, issued,
                      registered, aside_vars>>

(***************************************************************************)
(* JSONRPCStomp.call                                                       *)
(***************************************************************************)
CallFrame(s, method, params, trans_id) ==
    LET message == Request(method, JInt(trans_id), params)
        destination == PREFIX_TOPIC_JOB \o method
    IN Frame(JsonDumps(message), destination, reply_to_topic[s])

\* an allocation that starts over after the first id
NextIdWrapping(n) == (n % 1) + 1

\* the id call allocates
NextId(n) == n + 1

\* self.reply_to_topic is read before put: AttributeError before any connect
CallRaises(s) == IF reply_to_topic[s] = NoTopic THEN "AttributeError" ELSE ""

\* a call that reads reply_to_topic before it allocates the id
CallReadingTopicFirst(s, method, params, callback_success, callback_error) ==
    LET trans_id == NextId(last_id[s])
        frame == CallFrame(s, method, params, trans_id)
    IN /\ last_id[s] < MaxCalls
       /\ last_id[s] < Len(CallbackPool)
       /\ IF CallRaises(s) = ""
          THEN /\ CanDeliver(inbox, frame)
               /\ inbox' = Put(inbox, frame)
               /\ last_id' = [last_id EXCEPT ![s] = trans_id]
               /\ callbacks_success' =
                     [callbacks_success EXCEPT
                         ![s] = DictSet(@, trans_id, callback_success)]
               /\ callbacks_error' =
                     [callbacks_error EXCEPT
                         ![s] = DictSet(@, trans_id, callback_error)]
               /\ issued' = [issued EXCEPT ![s] = Append(@,
                        [id |-> trans_id, method |-> method, params |-> params,
                         callback_success |-> callback_success,
                         callback_error |-> callback_error,
                         reply_to |-> reply_to_topic[s]])]
               /\ last' = Did("call", s, NoFrame, "", <<frame>>, <<>>, <<>>)
          ELSE /\ last' = Did("call", s, NoFrame, CallRaises(s), <<>>, <<>>,
                              <<>>)
               /\ UNCHANGED <<inbox, correlation_vars, issued>>
       /\ UNCHANGED <<registry_vars, loop_vars, is_connected, reply_to_topic,
                      subscriptions, budget_vars, registered, aside_vars>>

Call(s, method, params, callback_success, callback_error) ==
    LET trans_id == NextId(last_id[s])
        frame == CallFrame(s, method, params, trans_id)
    IN /\ last_id[s] < MaxCalls
       /\ last_id[s] < Len(CallbackPool)
       /\ last_id' = [last_id EXCEPT ![s] = trans_id]
       /\ callbacks_success' = [callbacks_success EXCEPT
                                   ![s] = DictSet(@, trans_id, callback_success)]
       /\ callbacks_error' = [callbacks_error EXCEPT
                                 ![s] = DictSet(@, trans_id, callback_error)]
       /\ issued' = [issued EXCEPT ![s] = Append(@,
                        [id |-> trans_id, method |-> method, params |-> params,
                         callback_success |-> callback_success,
                         callback_error |-> callback_error,
                         reply_to |-> reply_to_topic[s]])]
       /\ IF CallRaises(s) = ""
          THEN /\ CanDeliver(inbox, frame)
               /\ inbox' = Put(inbox, frame)
               /\ last' = Did("call", s, NoFrame, "", <<frame>>, <<>>, <<>>)
          ELSE /\ inbox' = inbox
               /\ last' = Did("call", s, NoFrame, CallRaises(s), <<>>, <<>>,
                              <<>>)
       /\ UNCHANGED <<registry_vars, loop_vars, is_connected, reply_to_topic,
                      subscriptions, budget_vars, registered, aside_vars>>

(***************************************************************************)
(* Peers: the other clients of the broker.  They publish the frames a      *)
(* peer's call, notify or job reply builds, and frames this program never  *)
(* builds (the control sentinel, a body that is no JSON, an id on a        *)
(* notification topic, no id on a job or reply topic)                      *)
(***************************************************************************)
PeerReplyTo == PREFIX_REPLY \o "PEER"

\* bodies that are not JSON-RPC envelopes
ControlBodies == {RawBody(MSG_QUIT), RawBody("{")}

\* a request whose envelope has no params member
RequestWithoutParams(method, id) ==
    (JSONRPC_KEY_JSONRP :> JStr(JSONRPC_KEY_VERSION))
    @@ (JSONRPC_KEY_METHOD :> JStr(method))
    @@ (JSONRPC_KEY_ID :> id)

\* what peers publish to a job topic: jobs, and an envelope without id
JobTopicBodies ==
    {JsonDumps(Request("other", JInt(1), p)) : p \in ParamValues}
    \cup {JsonDumps(RequestWithoutParams("other", JInt(1)))}
    \cup {JsonDumps(Notification("other", EmptyDict))}

\* what peers publish to a notification topic: notifications, and an
\* envelope with an id
MessageTopicBodies ==
    {JsonDumps(Notification("other", p)) : p \in {None, EmptyDict, XY}}
    \cup {JsonDumps(Request("other", JInt(1), EmptyDict))}

\* what peers publish to a reply topic they were given in a reply-to header:
\* result and error replies, an envelope without id, and the control bodies
ReplyTopicBodies ==
    {JsonDumps(ResultResponse(JInt(i), r)) :
        i \in 1..MaxCalls, r \in {JInt(5), None}}
    \cup {JsonDumps(ErrorResponse(JInt(i), JSONRPC_VALUE_ERROR_INT_ERR,
                                  JSONRPC_VALUE_MSG_INT_ERR)) :
             i \in 1..MaxCalls}
    \cup {JsonDumps(Notification("other", EmptyDict))}
    \cup ControlBodies

\* the bodies peers publish to a destination
PeerBodies(destination) ==
    IF StartsWith(destination, PREFIX_REPLY) THEN ReplyTopicBodies
    ELSE IF StartsWith(destination, PREFIX_TOPIC_JOB) THEN JobTopicBodies
    ELSE IF StartsWith(destination, PREFIX_TOPIC_MESSAGE)
         THEN MessageTopicBodies
         ELSE {}

\* the frames peers may have published to the session's subscriptions
PeerFrames(s) ==
    UNION {{Frame(b, d, PeerReplyTo) : b \in PeerBodies(d)} :
              d \in Subscribed(s)}

\* of these, the ones that are no JSON-RPC envelopes
ControlFrames(s) ==
    {f \in PeerFrames(s) : f.body \in ControlBodies}

\* the frame the broker holds for the session from the sessions of the model
InboxFrames(s) == IF inbox[s] = <<>> THEN {} ELSE {Head(inbox[s])}

(***************************************************************************)
(* JSONRPCStomp.run: entering the loop, and a get() that raises            *)
(***************************************************************************)
Run(s) ==
    /\ run_pc[s] # "loop"
    /\ listen' = [listen EXCEPT ![s] = "True"]
    /\ run_pc' = [run_pc EXCEPT ![s] = "loop"]
    /\ last' = Did("run", s, NoFrame, "", <<>>, <<>>, <<>>)
    /\ UNCHANGED <<registry_vars, correlation_vars, is_connected,
                   reply_to_topic, broker_vars, budget_vars, issued,
                   registered, aside_vars>>

\* a loop that lets the failure of get() out
GetFailedPcPropagating == "raised"

\* lines 259-261: the bare except swallows the failure and the loop goes on
GetFailedPc == "loop"

\* a loop that gives up listening when get() fails
RunGetFailsStopping(s) ==
    /\ run_pc[s] = "loop"
    /\ listen' = [listen EXCEPT ![s] = "False"]
    /\ run_pc' = [run_pc EXCEPT ![s] = "returned"]
    /\ last' = Did("get_failed", s, NoFrame, "", <<>>, <<>>, <<>>)
    /\ UNCHANGED <<registry_vars, correlation_vars, is_connected,
                   reply_to_topic, broker_vars, budget_vars, issued,
                   registered, aside_vars>>

RunGetFails(s) ==
    /\ run_pc[s] = "loop"
    /\ run_pc' = [run_pc EXCEPT ![s] = GetFailedPc]
    /\ last' = Did("get_failed", s, NoFrame, "", <<>>, <<>>, <<>>)
    /\ UNCHANGED <<registry_vars, correlation_vars, listen, is_connected,
                   reply_to_topic, broker_vars, budget_vars, issued,
                   registered, aside_vars>>

(***************************************************************************)
(* One iteration of run() whose get() returned frame: _process_message     *)
(***************************************************************************)
\* the loop is in get() and the broker hands it the frame
Receives(s, frame) ==
    /\ run_pc[s] = "loop"
    /\ listen[s] = "True"

\* the session's inbox once get() returned the frame
Taken(s, frame) ==
    IF frame \in InboxFrames(s) THEN [inbox EXCEPT ![s] = Tail(@)] ELSE inbox

\* a loop that knows no control sentinel
IsQuitNever(message) == FALSE

\* line 207: the control sentinel
IsQuit(message) == message.body = RawBody(MSG_QUIT)

ProcessQuit(s, frame) ==
    /\ Receives(s, frame)
    /\ IsQuit(frame)
    /\ inbox' = Taken(s, frame)
    /\ listen' = [listen EXCEPT ![s] = "False"]
    /\ run_pc' = [run_pc EXCEPT ![s] = "returned"]
    /\ last' = Did("process", s, frame, "", <<>>, <<>>, <<>>)
    /\ UNCHANGED <<registry_vars, correlation_vars, is_connected,
                   reply_to_topic, subscriptions, budget_vars, issued,
                   registered, aside_vars>>

\* an exception leaves _process_message and run(); listen keeps its value
ProcessRaises(s, frame, raised, invoked) ==
    /\ inbox' = Taken(s, frame)
    /\ run_pc' = [run_pc EXCEPT ![s] = "raised"]
    /\ last' = Did("process", s, frame, raised, <<>>, <<>>, invoked)
    /\ UNCHANGED <<registry_vars, correlation_vars, listen, is_connected,
                   reply_to_topic, subscriptions, budget_vars, issued,
                   registered, aside_vars>>

\* a message was handled and the loop goes on to the next get()
ProcessReturns(s, frame, box, puts, invoked) ==
    /\ inbox' = box
    /\ last' = Did("process", s, frame, "", puts, <<>>, invoked)
    /\ UNCHANGED <<session_vars, subscriptions, budget_vars, issued,
                   registered, aside_vars>>

\* a dispatch whose properties read an assigned kind and fall to line 248
ClassifyRaisesNotImplemented(message) ==
    IF JsonLoadsFails(message.body) THEN "ValueError"
    ELSE IF MessageType(message) = MSG_TYPE_UNSET
         THEN "NotImplementedError"
         ELSE ""

\* line 211 raises ValueError; line 214 raises AttributeError when
\* message_type was never assigned
ClassifyRaises(message) ==
    IF JsonLoadsFails(message.body) THEN "ValueError"
    ELSE IF MessageType(message) = MSG_TYPE_UNSET
         THEN "AttributeError"
         ELSE ""

ProcessFault(s, frame) ==
    /\ Receives(s, frame)
    /\ ~IsQuit(frame)
    /\ ClassifyRaises(frame) # ""
    /\ ProcessRaises(s, frame, ClassifyRaises(frame), <<>>)

\* the frame is classified and its kind is known
Classified(s, frame) ==
    /\ Receives(s, frame)
    /\ ~IsQuit(frame)
    /\ ClassifyRaises(frame) = ""

(***************************************************************************)
(* lines 214-237: a job                                                    *)
(***************************************************************************)
JobDecodeFails(rpco) ==
    \/ PyLenFails(rpco.params)
    \/ PyLen(rpco.params) > 0 /\ ParamsLoadFails(rpco.params)

JobParams(rpco) ==
    IF PyLen(rpco.params) > 0 THEN ParamsLoad(rpco.params) ELSE EmptyDict

\* the try block raised before the reply was put
JobFails(s, rpco) ==
    \/ JobDecodeFails(rpco)
    \/ rpco.method.s \notin DOMAIN methods[s]
    \/ HandlerRaises(methods[s][rpco.method.s], JobParams(rpco))

JobInvoked(s, rpco) ==
    IF JobDecodeFails(rpco) \/ rpco.method.s \notin DOMAIN methods[s]
    THEN <<>>
    ELSE <<Invocation(methods[s][rpco.method.s], JobParams(rpco))>>

\* a job branch that reports every failure as Method not found
ErrorCodeMethodNotFound == JSONRPC_VALUE_ERROR_MET_NOT

\* the error of lines 230-231
ErrorCode == JSONRPC_VALUE_ERROR_INT_ERR
ErrorMessage == JSONRPC_VALUE_MSG_INT_ERR

JobResponse(s, rpco) ==
    IF JobFails(s, rpco)
    THEN ErrorResponse(rpco.id, ErrorCode, ErrorMessage)
    ELSE ResultResponse(rpco.id,
                        HandlerResult(methods[s][rpco.method.s],
                                      JobParams(rpco)))

\* the frames the job branch puts
JobPuts(s, rpco) ==
    <<Frame(JsonDumps(JobResponse(s, rpco)), rpco.reply_to, NoReplyTo)>>

ProcessJob(s, frame) ==
    /\ Classified(s, frame)
    /\ is_job(MessageType(frame))
    /\ LET rpco == JSONRPCObject(frame)
           puts == JobPuts(s, rpco)
       IN /\ \A i \in 1..Len(puts) : CanDeliver(Taken(s, frame), puts[i])
          /\ ProcessReturns(s, frame,
                IF puts = <<>> THEN Taken(s, frame)
                ELSE Put(Taken(s, frame), puts[1]),
                puts, JobInvoked(s, rpco))

(***************************************************************************)
(* lines 239-240: a notification; nothing is caught here                   *)
(***************************************************************************)
\* a notification branch that catches what the handler raises
NotificationRaisesCaught(s, rpco) ==
    IF rpco.notification \notin DOMAIN notifiers[s] THEN "KeyError"
    ELSE IF ~IsMapping(rpco.params) THEN "TypeError"
    ELSE ""

NotificationRaises(s, rpco) ==
    IF rpco.notification \notin DOMAIN notifiers[s] THEN "KeyError"
    ELSE IF ~IsMapping(rpco.params) THEN "TypeError"
    ELSE IF HandlerRaises(notifiers[s][rpco.notification], rpco.params)
         THEN "HandlerError"
         ELSE ""

NotificationInvoked(s, rpco) ==
    IF NotificationRaises(s, rpco) \in {"KeyError", "TypeError"}
    THEN <<>>
    ELSE <<Invocation(notifiers[s][rpco.notification], rpco.params)>>

\* a notification branch that answers like the job branch
NotificationPutsReply(s, rpco) ==
    <<Frame(JsonDumps(ResultResponse(rpco.id, None)),
            PREFIX_REPLY \o "NOBODY", NoReplyTo)>>

\* the frames the notification branch puts
NotificationPuts(s, rpco) == <<>>

ProcessNotification(s, frame) ==
    /\ Classified(s, frame)
    /\ is_notification(MessageType(frame))
    /\ LET rpco == JSONRPCObject(frame)
           puts == NotificationPuts(s, rpco)
       IN IF NotificationRaises(s, rpco) # ""
          THEN ProcessRaises(s, frame, NotificationRaises(s, rpco),
                             NotificationInvoked(s, rpco))
          ELSE /\ \A i \in 1..Len(puts) : CanDeliver(Taken(s, frame), puts[i])
               /\ ProcessReturns(s, frame,
                     IF puts = <<>> THEN Taken(s, frame)
                     ELSE Put(Taken(s, frame), puts[1]),
                     puts, NotificationInvoked(s, rpco))

(***************************************************************************)
(* lines 241-245: the reply to a call                                      *)
(***************************************************************************)
\* the table line 243 / 245 indexes
CallbackTable(s, rpco) ==
    IF rpco.message_type = MSG_TYPE_CALLBACK_SUCCESS
    THEN callbacks_success[s]
    ELSE callbacks_error[s]

\* the argument the callback gets
CallbackArg(rpco) ==
    IF rpco.message_type = MSG_TYPE_CALLBACK_SUCCESS
    THEN rpco.result
    ELSE rpco.error

CallbackRaises(s, rpco) ==
    IF rpco.id.t = "int" /\ rpco.id.n \in DOMAIN CallbackTable(s, rpco)
    THEN "" ELSE "KeyError"

CallbackInvoked(s, rpco) ==
    <<Invocation(CallbackTable(s, rpco)[rpco.id.n], CallbackArg(rpco))>>

\* a callback branch that forgets the success callback once it was used
ProcessCallbackOnce(s, frame) ==
    /\ Classified(s, frame)
    /\ is_callback(MessageType(frame))
    /\ LET rpco == JSONRPCObject(frame)
       IN IF CallbackRaises(s, rpco) # ""
          THEN ProcessRaises(s, frame, CallbackRaises(s, rpco), <<>>)
          ELSE /\ inbox' = Taken(s, frame)
               /\ last' = Did("process", s, frame, "", <<>>, <<>>,
                              CallbackInvoked(s, rpco))
               /\ callbacks_success' =
                     [callbacks_success EXCEPT
                         ![s] = [k \in (DOMAIN @) \ {rpco.id.n} |-> @[k]]]
               /\ UNCHANGED <<registry_vars, callbacks_error, last_id,
                              loop_vars, is_connected, reply_to_topic,
                              subscriptions, budget_vars, issued, registered,
                              aside_vars>>

ProcessCallback(s, frame) ==
    /\ Classified(s, frame)
    /\ is_callback(MessageType(frame))
    /\ LET rpco == JSONRPCObject(frame)
       IN IF CallbackRaises(s, rpco) # ""
          THEN ProcessRaises(s, frame, CallbackRaises(s, rpco), <<>>)
          ELSE ProcessReturns(s, frame, Taken(s, frame), <<>>,
                              CallbackInvoked(s, rpco))

\* line 264: _process_message on the frame get() returned
ProcessMessage(s, frame) ==
    \/ ProcessQuit(s, frame)
    \/ ProcessFault(s, frame)
    \/ ProcessJob(s, frame)
    \/ ProcessNotification(s, frame)
    \/ ProcessCallback(s, frame)

(***************************************************************************)
(* One session, its embedding program and its peers                        *)
(***************************************************************************)
CallParams == {XY}
NotifyParams == {EmptyDict, XY}

\* the callbacks the embedding program passes with its next call
NextCallbacks(s) == CallbackPool[last_id[s] + 1]

\* the frames get() may return
Inbound(s) == InboxFrames(s) \cup PeerFrames(s)

Next ==
    \E s \in {"A"} :
        \/ Connect(s)
        \/ Disconnect(s)
        \/ \E m \in MethodArgs(NotificationNames), h \in Handlers :
              AcceptNotifications(s, m, h)
        \/ \E m \in MethodArgs(MethodNames), h \in Handlers :
              AcceptCalls(s, m, h)
        \/ \E n \in MethodNames : Subscribe(s, PREFIX_TOPIC_JOB \o n, ACK_AUTO)
        \/ \E m \in NotificationNames, p \in NotifyParams : Notify(s, m, p)
        \/ \E m \in MethodNames, p \in CallParams :
              Call(s, m, p, NextCallbacks(s).success, NextCallbacks(s).error)
        \/ Run(s)
        \/ RunGetFails(s)
        \/ \E frame \in Inbound(s) : ProcessQuit(s, frame)
        \/ \E frame \in Inbound(s) : ProcessFault(s, frame)
        \/ \E frame \in Inbound(s) : ProcessJob(s, frame)
        \/ \E frame \in Inbound(s) : ProcessNotification(s, frame)
        \/ \E frame \in Inbound(s) : ProcessCallback(s, frame)

Spec == Init /\ [][Next]_vars

(***************************************************************************)
(* Two sessions on one broker: A registers and serves, B calls and         *)
(* notifies; peers publish only the control bodies                         *)
(***************************************************************************)
EndToEndCallParams == {XY, JStr(XYText)}
EndToEndNotifyParams == {EmptyDict}

\* the frames get() may return when peers publish only control bodies
EndToEndInbound(s) ==
    InboxFrames(s) \cup (IF s = "A" THEN ControlFrames(s) ELSE {})

NextEndToEnd ==
    \/ \E s \in Sessions : Connect(s)
    \/ \E m \in NotificationNames, h \in Handlers :
          AcceptNotifications("A", JStr(m), h)
    \/ \E m \in MethodNames, h \in Handlers : AcceptCalls("A", JStr(m), h)
    \/ \E m \in NotificationNames, p \in EndToEndNotifyParams :
          Notify("B", m, p)
    \/ \E m \in MethodNames, p \in EndToEndCallParams :
          Call("B", m, p, NextCallbacks("B").success, NextCallbacks("B").error)
    \/ \E s \in Sessions : Run(s)
    \/ \E s \in Sessions : \E frame \in EndToEndInbound(s) :
          ProcessQuit(s, frame)
    \/ \E s \in Sessions : \E frame \in EndToEndInbound(s) :
          ProcessFault(s, frame)
    \/ \E s \in Sessions : \E frame \in EndToEndInbound(s) :
          ProcessJob(s, frame)
    \/ \E s \in Sessions : \E frame \in EndToEndInbound(s) :
          ProcessNotification(s, frame)
    \/ \E s \in Sessions : \E frame \in EndToEndInbound(s) :
          ProcessCallback(s, frame)

SpecEndToEnd == Init /\ [][NextEndToEnd]_vars

(***************************************************************************)
(* JSONRPCObject on its own: the constructor applied to one inbound frame  *)
(***************************************************************************)
\* a key the envelope does not have
Absent == [t |-> "absent"]

\* the JSON object with the members that are not Absent
Envelope(id, result, error, method, params) ==
    LET members == {m \in {<<JSONRPC_KEY_ID, id>>,
                           <<JSONRPC_KEY_RESULT, result>>,
                           <<JSONRPC_KEY_ERROR, error>>,
                           <<JSONRPC_KEY_METHOD, method>>,
                           <<JSONRPC_KEY_PARAMS, params>>} : m[2] # Absent}
    IN [k \in {m[1] : m \in members} |->
           (CHOOSE m \in members : m[1] = k)[2]]

ClassifyDestinations ==
    {PREFIX_TOPIC_MESSAGE \o "ping",
     PREFIX_TOPIC_MESSAGE \o PREFIX_TOPIC_MESSAGE \o "x",
     PREFIX_TOPIC_JOB \o "echo",
     PREFIX_TOPIC_JOB \o PREFIX_TOPIC_JOB \o "y",
     PREFIX_TOPIC_JOB \o PREFIX_TOPIC_MESSAGE \o "z",
     PREFIX_REPLY \o "XYZ",
     "/queue" \o PREFIX_TOPIC_MESSAGE \o "w",
     "/queue/other"}

ClassifyEnvelopes ==
    {Envelope(id, result, error, method, params) :
        id \in {Absent, None, JInt(0), JInt(1)},
        result \in {Absent, None, JInt(5)},
        error \in {Absent, JError(JSONRPC_VALUE_ERROR_INT_ERR,
                                  JSONRPC_VALUE_MSG_INT_ERR)},
        method \in {Absent, JStr("envelope_method")},
        params \in {Absent, EmptyDict}}

ClassifyInputs ==
    {Frame(JsonDumps(e), d, r) :
        e \in ClassifyEnvelopes, d \in ClassifyDestinations,
        r \in {NoReplyTo, PREFIX_REPLY \o "CALLER"}}

InitClassify ==
    /\ InitSessions
    /\ cl_in \in ClassifyInputs
    /\ cl_out = NotClassified

Classify ==
    /\ cl_out = NotClassified
    /\ cl_out' = JSONRPCObject(cl_in)
    /\ UNCHANGED <<session_vars, broker_vars, budget_vars, last, issued,
                   registered, cl_in, connect_pc>>

NextClassify == Classify

SpecClassify == InitClassify /\ [][NextClassify]_vars

(***************************************************************************)
(* JSONRPCStomp.connect statement by statement, with disconnect between    *)
(* the calls.  connect_pc: "idle" (no call made or the call returned),     *)
(* "retry" (in the while of lines 120-126), "transport_up" (line 126       *)
(* done), "topic_assigned" (line 135 done), "subscribed" (line 137 done),  *)
(* "failed" (the call raised)                                              *)
(***************************************************************************)
\* every variable the statements of connect leave alone
connect_frame == <<registry_vars, correlation_vars, loop_vars, inbox, regs,
                   last, issued, registered, classify_vars>>

\* line 118: the call starts; self.is_connected is not touched
ConnectEnter(s) ==
    /\ connect_pc[s] \in {"idle", "failed"}
    /\ connects < MaxConnects
    /\ connect_pc' = [connect_pc EXCEPT ![s] = "retry"]
    /\ UNCHANGED <<connect_frame, is_connected, reply_to_topic, subscriptions,
                   connects>>

\* lines 123-124: ConnectionError, sleep, try again
ConnectAttemptFails(s) ==
    /\ connect_pc[s] = "retry"
    /\ UNCHANGED vars

\* lines 122, 125-126: the transport connected
ConnectAttemptSucceeds(s) ==
    /\ connect_pc[s] = "retry"
    /\ connect_pc' = [connect_pc EXCEPT ![s] = "transport_up"]
    /\ UNCHANGED <<connect_frame, is_connected, reply_to_topic, subscriptions,
                   connects>>

\* lines 130-135
ConnectAssignTopic(s) ==
    /\ connect_pc[s] = "transport_up"
    /\ connects < MaxConnects
    /\ connects < Len(TokenPool)
    /\ reply_to_topic' =
          [reply_to_topic EXCEPT ![s] = PREFIX_REPLY \o TokenPool[connects + 1]]
    /\ connects' = connects + 1
    /\ connect_pc' = [connect_pc EXCEPT ![s] = "topic_assigned"]
    /\ UNCHANGED <<connect_frame, is_connected, subscriptions>>

\* line 137
ConnectSubscribe(s) ==
    /\ connect_pc[s] = "topic_assigned"
    /\ subscriptions' = [subscriptions EXCEPT
                            ![s] = @ \cup {<<reply_to_topic[s], ReplyAck>>}]
    /\ connect_pc' = [connect_pc EXCEPT ![s] = "subscribed"]
    /\ UNCHANGED <<connect_frame, is_connected, reply_to_topic, connects>>

\* line 137 raises (the transport failed) and the exception leaves connect
ConnectSubscribeFails(s) ==
    /\ connect_pc[s] = "topic_assigned"
    /\ connect_pc' = [connect_pc EXCEPT ![s] = "failed"]
    /\ UNCHANGED <<connect_frame, is_connected, reply_to_topic, subscriptions,
                   connects>>

\* line 139
ConnectMark(s) ==
    /\ connect_pc[s] = "subscribed"
    /\ is_connected' = [is_connected EXCEPT ![s] = TRUE]
    /\ connect_pc' = [connect_pc EXCEPT ![s] = "idle"]
    /\ UNCHANGED <<connect_frame, reply_to_topic, subscriptions, connects>>

\* disconnect, called when no connect call is running
DisconnectBetweenCalls(s) ==
    /\ connect_pc[s] \in {"idle", "failed"}
    /\ Disconnect(s)

NextConnect ==
    \E s \in Sessions :
        \/ ConnectEnter(s)
        \/ ConnectAttemptFails(s)
        \/ ConnectAttemptSucceeds(s)
        \/ ConnectAssignTopic(s)
        \/ ConnectSubscribe(s)
        \/ ConnectSubscribeFails(s)
        \/ ConnectMark(s)
        \/ DisconnectBetweenCalls(s)

SpecConnect == Init /\ [][NextConnect]_vars

(***************************************************************************)
(* Properties                                                              *)
(***************************************************************************)
\* the latest step was an iteration of run() that classified its frame
ProcessedEnvelope(st) ==
    /\ st.op = "process"
    /\ ~IsQuit(st.msg)
    /\ ClassifyRaises(st.msg) = ""

\* the call of session s that allocated id, as a set (empty if none did)
IssuedWith(s, id) ==
    {issued[s][k] : k \in {j \in 1..Len(issued[s]) :
                              id.t = "int" /\ issued[s][j].id = id.n}}

\* C1: when the loop receives a reply on a '/topic/reply-' destination that
\* carries the id of an issued call, it invokes that call's onS with the
\* reply's result if the reply has a result member, or that call's onE with
\* the reply's error if it has an error member, exactly once, and invokes
\* nothing else.
C1_ReplyInvokesItsHandler ==
    [][\A c \in (IF ProcessedEnvelope(last')
                 THEN IssuedWith(last'.s, Get(last'.msg.body.obj, JSONRPC_KEY_ID))
                 ELSE {}) :
          LET reply == last'.msg.body.obj
          IN StartsWith(last'.msg.destination, PREFIX_REPLY) =>
                /\ JSONRPC_KEY_RESULT \in DOMAIN reply =>
                      last'.invoked =
                         <<Invocation(c.callback_success, reply[JSONRPC_KEY_RESULT])>>
                /\ (JSONRPC_KEY_RESULT \notin DOMAIN reply
                    /\ JSONRPC_KEY_ERROR \in DOMAIN reply) =>
                      last'.invoked =
                         <<Invocation(c.callback_error, reply[JSONRPC_KEY_ERROR])>>
      ]_vars

\* C1: a reply whose result is null reached the loop and the error callback
\* of the call was invoked
C1_NullResultInvokesOnE ==
    /\ ProcessedEnvelope(last)
    /\ StartsWith(last.msg.destination, PREFIX_REPLY)
    /\ JSONRPC_KEY_RESULT \in DOMAIN last.msg.body.obj
    /\ \E c \in IssuedWith(last.s, Get(last.msg.body.obj, JSONRPC_KEY_ID)) :
          last.invoked = <<Invocation(c.callback_error, None)>>

\* every registration of A's method 'add' was with the handler returning x+y
AddReturnsSum ==
    /\ \E r \in registered : r[1] = "A" /\ r[2] = "method" /\ r[3] = "add"
    /\ \A r \in registered :
          (r[1] = "A" /\ r[2] = "method" /\ r[3] = "add") => r[4] = "h_add"

\* C2: A serves 'add' with a handler returning x+y and B issued
\* call('add', {x:2, y:3}, onS, onE); when B's loop has received A's reply to
\* that call, it has invoked onS with 5 and has not invoked onE.
C2_AddTwoThreeInvokesOnS ==
    [][\A c \in (IF ProcessedEnvelope(last') /\ last'.s = "B"
                 THEN IssuedWith("B", Get(last'.msg.body.obj, JSONRPC_KEY_ID))
                 ELSE {}) :
          (/\ AddReturnsSum
           /\ c.method = "add"
           /\ c.params = XY
           /\ last'.msg.destination = c.reply_to) =>
              last'.invoked = <<Invocation(c.callback_success, JInt(5))>>
      ]_vars

\* C2: B's loop received A's reply to call('add', {x:2, y:3}, ..) and invoked
\* the error callback with the Internal error
C2_AddTwoThreeInvokesOnE ==
    /\ ProcessedEnvelope(last)
    /\ last.s = "B"
    /\ AddReturnsSum
    /\ \E c \in IssuedWith("B", Get(last.msg.body.obj, JSONRPC_KEY_ID)) :
          /\ c.method = "add"
          /\ c.params = XY
          /\ last.msg.destination = c.reply_to
          /\ last.invoked =
                <<Invocation(c.callback_error,
                             JError(JSONRPC_VALUE_ERROR_INT_ERR,
                                    JSONRPC_VALUE_MSG_INT_ERR))>>

\* the step is an iteration of run() on a job whose try block raised
FailedJobStep ==
    /\ ProcessedEnvelope(last')
    /\ is_job(MessageType(last'.msg))
    /\ JobFails(last'.s, JSONRPCObject(last'.msg))

\* C3: a job whose processing fails (params that cannot be decoded, no
\* handler for the method, a handler that raises) makes _process_message put
\* exactly one frame: to the job's reply-to destination, with the job's id,
\* with the error -32603 'Internal error' and with no result member.
C3_FailedJobRepliesInternalError ==
    [][FailedJobStep =>
          /\ Len(last'.puts) = 1
          /\ LET reply == last'.puts[1]
             IN /\ reply.destination = last'.msg.reply_to
                /\ reply.body.kind = "json"
                /\ Get(reply.body.obj, JSONRPC_KEY_ID) =
                      Get(last'.msg.body.obj, JSONRPC_KEY_ID)
                /\ JSONRPC_KEY_ERROR \in DOMAIN reply.body.obj
                /\ reply.body.obj[JSONRPC_KEY_ERROR] =
                      JError(-32603, "Internal error")
                /\ JSONRPC_KEY_RESULT \notin DOMAIN reply.body.obj
      ]_vars

\* C3: a job was handed to a registered handler, the handler raised, and
\* the reply was put
C3_HandlerRaised ==
    /\ ProcessedEnvelope(last)
    /\ is_job(MessageType(last.msg))
    /\ Len(last.invoked) = 1
    /\ HandlerRaises(last.invoked[1].h, last.invoked[1].args)
    /\ Len(last.puts) = 1

\* a job for a method nobody registered was answered
C3_NoHandler ==
    /\ ProcessedEnvelope(last)
    /\ is_job(MessageType(last.msg))
    /\ ~JobDecodeFails(JSONRPCObject(last.msg))
    /\ JSONRPCObject(last.msg).method.s \notin DOMAIN methods[last.s]
    /\ Len(last.puts) = 1

\* a job whose params could not be decoded was answered
C3_DecodeFailed ==
    /\ ProcessedEnvelope(last)
    /\ is_job(MessageType(last.msg))
    /\ JobDecodeFails(JSONRPCObject(last.msg))
    /\ Len(last.puts) = 1

\* C4: the k-th call of a session allocates id k (the first 1, each next the
\* previous plus 1, none twice), whatever connects and disconnects came
\* between the calls, and last_id is the number of calls made.
C4_IdsCountCalls ==
    \A s \in Sessions :
        /\ last_id[s] = Len(issued[s])
        /\ \A k \in 1..Len(issued[s]) : issued[s][k].id = k

\* C4: two calls were made under two different connections
C4_CallsAcrossReconnect ==
    /\ last.op = "call"
    /\ Len(issued["A"]) = 2
    /\ issued["A"][1].reply_to # NoTopic
    /\ issued["A"][2].reply_to # issued["A"][1].reply_to

\* C5: notify(m, p) leaves last_id and both callback tables as they were,
\* puts exactly one frame, to '/topic/msg.local.' + m, whose envelope has no
\* id, and takes no frame from the broker.
C5_NotifyEffect ==
    [][last'.op = "notify" =>
          /\ last_id' = last_id
          /\ callbacks_success' = callbacks_success
          /\ callbacks_error' = callbacks_error
          /\ Len(last'.puts) = 1
          /\ LET sent == last'.puts[1]
             IN /\ sent.body.kind = "json"
                /\ JSONRPC_KEY_ID \notin DOMAIN sent.body.obj
                /\ sent.destination =
                      "/topic/msg.local." \o sent.body.obj[JSONRPC_KEY_METHOD].s
          /\ last'.msg = NoFrame
          /\ \A s \in Sessions : Len(inbox'[s]) >= Len(inbox[s])
      ]_vars

\* C5: a notify was made by a session with a call outstanding
C5_NotifyAfterCall ==
    /\ last.op = "notify"
    /\ last_id["A"] = 1
    /\ DOMAIN callbacks_success["A"] = {1}
    /\ Len(last.puts) = 1

\* C6: on a session that is not connected, accept_calls and
\* accept_notifications raise NotConnectedError, subscribe to nothing and
\* leave methods and notifiers as they were.
C6_NotConnectedRegistrationFails ==
    [][(/\ last'.op \in {"accept_calls", "accept_notifications"}
        /\ ~is_connected[last'.s]) =>
          /\ last'.raised = "NotConnectedError"
          /\ last'.subs = <<>>
          /\ subscriptions' = subscriptions
          /\ methods' = methods
          /\ notifiers' = notifiers
      ]_vars

\* C6: a registration was refused after a disconnect, with a method
\* registered before it
C6_RefusedAfterDisconnect ==
    /\ last.op = "accept_calls"
    /\ last.raised = "NotConnectedError"
    /\ connects >= 1
    /\ ~is_connected["A"]
    /\ DOMAIN methods["A"] = {"add"}

\* C7: A registered a handler for 'ping' and B issued notify('ping', {});
\* when A's loop receives that frame it invokes A's handler once with empty
\* params and puts no frame.
C7_PingInvokesHandlerNoReply ==
    [][(/\ last'.op = "process"
        /\ last'.s = "A"
        /\ last'.msg = Frame(JsonDumps(Notification("ping", EmptyDict)),
                             "/topic/msg.local.ping", NoReplyTo)
        /\ "ping" \in DOMAIN notifiers["A"]) =>
          /\ last'.invoked = <<Invocation(notifiers["A"]["ping"], EmptyDict)>>
          /\ last'.puts = <<>>
          /\ inbox'["B"] = inbox["B"]
      ]_vars

\* C7: A's loop received B's ping and A's handler returned
C7_PingHandled ==
    /\ last.op = "process"
    /\ last.s = "A"
    /\ last.msg = Frame(JsonDumps(Notification("ping", EmptyDict)),
                        "/topic/msg.local.ping", NoReplyTo)
    /\ last.raised = ""
    /\ last.invoked = <<Invocation("h_void", EmptyDict)>>

\* C8: a frame whose envelope has no id (the member is missing or null) is
\* classified as a notification whatever its destination, and when the
\* destination starts with '/topic/msg.local.' the notification name is the
\* rest of the destination.
C8_NoIdIsNotification ==
    (/\ cl_out # NotClassified
     /\ Get(cl_in.body.obj, JSONRPC_KEY_ID) = None) =>
        /\ cl_out.message_type = MSG_TYPE_NOT
        /\ StartsWith(cl_in.destination, "/topic/msg.local.") =>
              "/topic/msg.local." \o cl_out.notification = cl_in.destination

\* C8: an envelope without id on a job topic was classified
C8_NoIdOnJobTopic ==
    /\ cl_out # NotClassified
    /\ JSONRPC_KEY_ID \notin DOMAIN cl_in.body.obj
    /\ cl_in.destination = PREFIX_TOPIC_JOB \o "echo"
    /\ cl_out.message_type = MSG_TYPE_NOT

\* an envelope without id on a notification topic was classified
C8_NoIdOnMessageTopic ==
    /\ cl_out # NotClassified
    /\ JSONRPC_KEY_ID \notin DOMAIN cl_in.body.obj
    /\ cl_in.destination = PREFIX_TOPIC_MESSAGE \o "ping"
    /\ cl_out.notification = "ping"

\* C9: a frame whose envelope has an id is, on a destination starting with
\* '/topic/req.local.', a job whose method is the rest of the destination
\* and whose reply_to is the reply-to header; on a destination starting with
\* '/topic/reply-' it is a success callback when the envelope has a result
\* member and an error callback otherwise.
C9_IdClassifiedByPrefix ==
    (/\ cl_out # NotClassified
     /\ Get(cl_in.body.obj, JSONRPC_KEY_ID) # None) =>
        /\ StartsWith(cl_in.destination, "/topic/req.local.") =>
              /\ cl_out.message_type = MSG_TYPE_JOB
              /\ cl_out.method.t = "str"
              /\ "/topic/req.local." \o cl_out.method.s = cl_in.destination
              /\ cl_out.reply_to = cl_in.reply_to
        /\ StartsWith(cl_in.destination, "/topic/reply-") =>
              cl_out.message_type =
                 (IF JSONRPC_KEY_RESULT \in DOMAIN cl_in.body.obj
                  THEN MSG_TYPE_CALLBACK_SUCCESS
                  ELSE MSG_TYPE_CALLBACK_ERROR)

\* C9: an envelope with an id and a null result on a reply topic was
\* classified as an error callback
C9_NullResultIsError ==
    /\ cl_out # NotClassified
    /\ Get(cl_in.body.obj, JSONRPC_KEY_ID) # None
    /\ StartsWith(cl_in.destination, PREFIX_REPLY)
    /\ JSONRPC_KEY_RESULT \in DOMAIN cl_in.body.obj
    /\ cl_out.message_type = MSG_TYPE_CALLBACK_ERROR

\* the step takes the loop of session s out of its while
LeavesLoop(s) == run_pc[s] = "loop" /\ run_pc'[s] # "loop"

C10_GetFailedLoopGoesOn ==
    /\ last.op = "get_failed"
    /\ run_pc["A"] = "loop"

\* the loop returned on 'quit'
C10_QuitReturned ==
    /\ last.op = "process"
    /\ IsQuit(last.msg)
    /\ run_pc[last.s] = "returned"

\* the step is an iteration of run() on a notification whose registered
\* handler is called and raises
NotificationHandlerRaisesStep ==
    /\ ProcessedEnvelope(last')
    /\ is_notification(MessageType(last'.msg))
    /\ LET rpco == JSONRPCObject(last'.msg)
       IN /\ rpco.notification \in DOMAIN notifiers[last'.s]
          /\ IsMapping(rpco.params)
          /\ HandlerRaises(notifiers[last'.s][rpco.notification], rpco.params)

\* C11: when the handler of a received notification raises, the exception
\* leaves _process_message and run(), the loop is over, and no frame (no
\* result reply, no error reply) is put.
C11_NotificationHandlerFailurePropagates ==
    [][NotificationHandlerRaisesStep =>
          /\ last'.raised # ""
          /\ run_pc'[last'.s] = "raised"
          /\ last'.puts = <<>>
          /\ \A t \in Sessions : Len(inbox'[t]) <= Len(inbox[t])
          /\ Len(last'.invoked) = 1
      ]_vars

\* C11: the handler registered for 'ping' raised on a received notification
\* and nothing was put
C11_PingHandlerRaised ==
    /\ ProcessedEnvelope(last)
    /\ is_notification(MessageType(last.msg))
    /\ last.invoked = <<Invocation("h_raise", EmptyDict)>>
    /\ last.raised = "HandlerError"
    /\ last.puts = <<>>
    /\ run_pc[last.s] = "raised"

\* C12: a successful accept_calls(name, handler) subscribes once, to
\* '/topic/req.local.' + name with acknowledgment mode 'client', and a
\* successful accept_notifications(name, handler) subscribes once, to
\* '/topic/msg.local.' + name with acknowledgment mode 'auto'.
C12_JobsClientAckNotificationsAutoAck ==
    [][/\ (last'.op = "accept_calls" /\ last'.raised = "") =>
             /\ Len(last'.subs) = 1
             /\ \E name \in DOMAIN methods'[last'.s] :
                   last'.subs[1] = <<"/topic/req.local." \o name, "client">>
       /\ (last'.op = "accept_notifications" /\ last'.raised = "") =>
             /\ Len(last'.subs) = 1
             /\ \E name \in DOMAIN notifiers'[last'.s] :
                   last'.subs[1] = <<"/topic/msg.local." \o name, "auto">>
      ]_vars

\* C12: accept_calls('add', ..) succeeded and subscribed the job topic with
\* acknowledgment mode 'auto'
C12_JobTopicSubscribedAuto ==
    /\ last.op = "accept_calls"
    /\ last.raised = ""
    /\ last.subs = <<<<"/topic/req.local.add", "auto">>>>
    /\ <<"/topic/req.local.add", "auto">> \in subscriptions[last.s]

\* C13: disconnect() leaves the session not connected and leaves methods,
\* notifiers, callbacks_success, callbacks_error and last_id as they were.
C13_DisconnectKeepsRegistries ==
    [][last'.op = "disconnect" =>
          /\ ~is_connected'[last'.s]
          /\ methods' = methods
          /\ notifiers' = notifiers
          /\ callbacks_success' = callbacks_success
          /\ callbacks_error' = callbacks_error
          /\ last_id' = last_id
      ]_vars

\* C13: a session with a registered method and a pending call disconnected
C13_DisconnectedWithEntries ==
    /\ last.op = "disconnect"
    /\ ~is_connected[last.s]
    /\ DOMAIN methods[last.s] = {"add"}
    /\ DOMAIN callbacks_success[last.s] = {1}
    /\ DOMAIN callbacks_error[last.s] = {1}
    /\ last_id[last.s] = 1

\* the params of the envelope are absent or empty
ParamsEmptyOrAbsent(envelope) ==
    \/ JSONRPC_KEY_PARAMS \notin DOMAIN envelope
    \/ envelope[JSONRPC_KEY_PARAMS] \in {EmptyDict, JStr("")}

\* C14: a job for a registered method whose params are empty or absent
\* makes the loop call the handler with no arguments and, when the handler
\* returns, put one result reply (no error member) to the job's reply-to.
C14_EmptyOrAbsentParamsCallHandler ==
    [][(/\ ProcessedEnvelope(last')
        /\ is_job(MessageType(last'.msg))
        /\ JSONRPCObject(last'.msg).method.s \in DOMAIN methods[last'.s]
        /\ ParamsEmptyOrAbsent(last'.msg.body.obj)) =>
          LET handler == methods[last'.s][JSONRPCObject(last'.msg).method.s]
          IN /\ last'.invoked = <<Invocation(handler, EmptyDict)>>
             /\ ~HandlerRaises(handler, EmptyDict) =>
                   /\ Len(last'.puts) = 1
                   /\ last'.puts[1].destination = last'.msg.reply_to
                   /\ JSONRPC_KEY_RESULT \in DOMAIN last'.puts[1].body.obj
                   /\ JSONRPC_KEY_ERROR \notin DOMAIN last'.puts[1].body.obj
      ]_vars

\* C14: a job without a params member for a registered handler that takes
\* no arguments was answered with an error, the handler not called
C14_AbsentParamsAnsweredWithError ==
    /\ ProcessedEnvelope(last)
    /\ is_job(MessageType(last.msg))
    /\ JSONRPC_KEY_PARAMS \notin DOMAIN last.msg.body.obj
    /\ "add" \in DOMAIN methods[last.s]
    /\ methods[last.s]["add"] = "h_void"
    /\ last.invoked = <<>>
    /\ Len(last.puts) = 1
    /\ JSONRPC_KEY_ERROR \in DOMAIN last.puts[1].body.obj

\* a job with empty params for a registered handler was answered with the
\* handler's result
C14_EmptyParamsAnsweredWithResult ==
    /\ ProcessedEnvelope(last)
    /\ is_job(MessageType(last.msg))
    /\ Get(last.msg.body.obj, JSONRPC_KEY_PARAMS) \in {EmptyDict, JStr("")}
    /\ last.invoked = <<Invocation("h_void", EmptyDict)>>
    /\ Len(last.puts) = 1
    /\ JSONRPC_KEY_RESULT \in DOMAIN last.puts[1].body.obj

\* C15: on a frame whose body is 'quit' the loop sets listen to False and
\* run() returns: the frame is not classified (nothing is raised), nothing
\* is invoked or put, the registries and callback tables keep their
\* content, and no further frame is received (a frame is only ever
\* processed by a loop that has not stopped).
C15_QuitStopsWithoutProcessing ==
    [][/\ (last'.op = "process" /\ last'.msg.body = RawBody("quit")) =>
             /\ listen'[last'.s] = "False"
             /\ run_pc'[last'.s] = "returned"
             /\ last'.raised = ""
             /\ last'.invoked = <<>>
             /\ last'.puts = <<>>
             /\ last'.subs = <<>>
             /\ registry_vars' = registry_vars
             /\ correlation_vars' = correlation_vars
             /\ subscriptions' = subscriptions
       /\ last'.op \in {"process", "get_failed"} =>
             (run_pc[last'.s] = "loop" /\ listen[last'.s] = "True")
      ]_vars

\* C15: a session with a registered method and a pending call received
\* 'quit' and its run() returned
C15_QuitReceived ==
    /\ last.op = "process"
    /\ last.msg.body = RawBody("quit")
    /\ run_pc[last.s] = "returned"
    /\ listen[last.s] = "False"
    /\ methods[last.s] # EmptyTable
    /\ last_id[last.s] = 1

\* C16: when get() raises inside run(), nothing leaves run(): the loop is
\* still running with listen True (so it calls get() again), nothing is
\* invoked or put, and the registries, the callback tables and last_id keep
\* their content.
C16_ReceiveFailureIsSwallowed ==
    [][last'.op = "get_failed" =>
          /\ last'.raised = ""
          /\ run_pc'[last'.s] = "loop"
          /\ listen'[last'.s] = "True"
          /\ last'.invoked = <<>>
          /\ last'.puts = <<>>
          /\ registry_vars' = registry_vars
          /\ correlation_vars' = correlation_vars
          /\ inbox' = inbox
      ]_vars

\* C16: get() failed in the loop of a session with a registered method and
\* a pending call, and the loop is still running
C16_GetFailedWithEntries ==
    /\ last.op = "get_failed"
    /\ run_pc[last.s] = "loop"
    /\ listen[last.s] = "True"
    /\ methods[last.s] # EmptyTable
    /\ last_id[last.s] = 1

\* C17: a frame whose envelope has an id and whose destination starts with
\* neither '/topic/req.local.' nor '/topic/reply-' gets no message_type, and
\* processing it raises AttributeError (not NotImplementedError) out of
\* run(), with nothing invoked and nothing put.
C17_UnclassifiableRaisesAttributeError ==
    [][(/\ last'.op = "process"
        /\ last'.msg.body.kind = "json"
        /\ Get(last'.msg.body.obj, JSONRPC_KEY_ID) # None
        /\ ~StartsWith(last'.msg.destination, "/topic/req.local.")
        /\ ~StartsWith(last'.msg.destination, "/topic/reply-")) =>
          /\ JSONRPCObject(last'.msg).message_type = MSG_TYPE_UNSET
          /\ last'.raised = "AttributeError"
          /\ last'.invoked = <<>>
          /\ last'.puts = <<>>
          /\ run_pc'[last'.s] = "raised"
      ]_vars

\* C17: an envelope with an id arrived on a notification topic and the loop
\* ended with AttributeError
C17_IdOnNotificationTopic ==
    /\ last.op = "process"
    /\ last.msg.body.kind = "json"
    /\ Get(last.msg.body.obj, JSONRPC_KEY_ID) # None
    /\ StartsWith(last.msg.destination, PREFIX_TOPIC_MESSAGE)
    /\ last.raised = "AttributeError"
    /\ run_pc[last.s] = "raised"

\* the session's current reply topic is defined, has the reply prefix and
\* is subscribed with acknowledgment mode 'client'
ReplyTopicSubscribed(s) ==
    /\ reply_to_topic[s] # NoTopic
    /\ StartsWith(reply_to_topic[s], "/topic/reply-")
    /\ <<reply_to_topic[s], "client">> \in subscriptions[s]

C18_ReconnectInProgress ==
    \E s \in Sessions :
        /\ connect_pc[s] = "topic_assigned"
        /\ is_connected[s]
        /\ ~ReplyTopicSubscribed(s)

\* is_connected goes from False to True only at line 139, with the fresh
\* topic subscribed, and a session whose connect calls all returned has its
\* reply topic subscribed while it is marked connected
C18_FirstConnectMarksLast ==
    [][\A s \in Sessions :
          /\ (~is_connected[s] /\ is_connected'[s]) =>
                (connect_pc[s] = "subscribed" /\ ReplyTopicSubscribed(s))
          /\ (is_connected[s] /\ connect_pc[s] = "idle") =>
                ReplyTopicSubscribed(s)
      ]_vars

\* C19: callbacks_success and callbacks_error always have the same keys,
\* 1 .. last_id, and no step (a reply delivered, disconnect, connect)
\* removes or replaces an entry, so a reply for the same id delivered again
\* finds the same callback.
C19_CallbackTablesOnlyGrow ==
    [][\A s \in Sessions :
          /\ DOMAIN callbacks_success'[s] = 1..last_id'[s]
          /\ DOMAIN callbacks_error'[s] = 1..last_id'[s]
          /\ \A k \in DOMAIN callbacks_success[s] :
                /\ k \in DOMAIN callbacks_success'[s]
                /\ callbacks_success'[s][k] = callbacks_success[s][k]
          /\ \A k \in DOMAIN callbacks_error[s] :
                /\ k \in DOMAIN callbacks_error'[s]
                /\ callbacks_error'[s][k] = callbacks_error[s][k]
          /\ last_id'[s] \in {last_id[s], last_id[s] + 1}
      ]_vars

\* C19: after two calls a reply for id 1 was delivered and its callback
\* invoked, and both tables still hold both ids
C19_ReplyDeliveredEntriesKept ==
    /\ last.op = "process"
    /\ last.invoked = <<Invocation("onS1", JInt(5))>>
    /\ last_id[last.s] = 2
    /\ DOMAIN callbacks_success[last.s] = {1, 2}
    /\ DOMAIN callbacks_error[last.s] = {1, 2}
    /\ callbacks_success[last.s][1] = "onS1"

\* C20: call never looks at is_connected.  On a session that never
\* completed connect (reply_to_topic does not exist) it raises and puts
\* nothing, but last_id has been incremented and both callbacks stay
\* registered under the new id; on a session that has a reply topic it
\* goes on to put its frame whether or not the session is marked connected.
C20_CallBeforeConnectConsumesId ==
    [][last'.op = "call" =>
          LET s == last'.s
          IN /\ reply_to_topic[s] = NoTopic =>
                   /\ last'.raised # ""
                   /\ last'.puts = <<>>
                   /\ inbox' = inbox
                   /\ last_id'[s] = last_id[s] + 1
                   /\ last_id'[s] \in DOMAIN callbacks_success'[s]
                   /\ last_id'[s] \in DOMAIN callbacks_error'[s]
                   /\ callbacks_success'[s][last_id'[s]] =
                         issued'[s][Len(issued'[s])].callback_success
                   /\ callbacks_error'[s][last_id'[s]] =
                         issued'[s][Len(issued'[s])].callback_error
             /\ reply_to_topic[s] # NoTopic =>
                   /\ last'.raised = ""
                   /\ Len(last'.puts) = 1
      ]_vars

\* C20: the first operation on a session was a call: it raised, and id 1 is
\* consumed with both callbacks registered
C20_CallOnFreshSession ==
    /\ last.op = "call"
    /\ last.raised = "AttributeError"
    /\ connects = 0
    /\ ~is_connected[last.s]
    /\ last_id[last.s] = 1
    /\ callbacks_success[last.s] = (1 :> "onS1")
    /\ callbacks_error[last.s] = (1 :> "onE1")

\* a call on a disconnected session that has a reply topic put its frame
C20_CallAfterDisconnect ==
    /\ last.op = "call"
    /\ last.raised = ""
    /\ ~is_connected[last.s]
    /\ Len(last.puts) = 1

====
